---- MODULE Spec2Model ----
(***************************************************************************)
(* Weighted CH3 hashing (mcrouter/lib/WeightedCh3HashFunc.h).              *)
(*                                                                         *)
(* weightedCh3Hash(key, weights, retryCount) is the retry-with-salt        *)
(* rejection sampling documented in the header:                            *)
(*                                                                         *)
(*   Try retryCount times:                                                 *)
(*     index = CH3(key + next_salt(), n)                                   *)
(*     probability = SpookyHashV2_uint32(key)                              *)
(*     if (probability < server_weight[index] * uint32_max): return index  *)
(*   return index                                                          *)
(*                                                                         *)
(* CH3 and SpookyHashV2 are external hash functions: a behaviour fixes     *)
(* them, arbitrarily, in its initial state.  Unsigned 32-bit values are    *)
(* kept exact as two 16-bit limbs <<high, low>>; a weight is the exact     *)
(* fraction <<numerator, denominator>>.  Strings are TLA+ strings, so a    *)
(* salted key is the concatenation the code hashes.                        *)
(***************************************************************************)
EXTENDS Integers, Sequences, FiniteSets, TLC

VARIABLES
    key,         \* the key being routed (folly::StringPiece key)
    poolSize,    \* n = weights.size()
    retryCount,  \* the retryCount argument
    ch3,         \* the CH3 hash, as a table over the strings it is asked about
    hash32,      \* SpookyHashV2_uint32(key)
    last,        \* the most recent call: its weights and what it returned
    observed,    \* an earlier call kept for comparison (history)
    saltsMade    \* the salts next_salt() has returned so far, in order

vars == <<key, poolSize, retryCount, ch3, hash32, last, observed, saltsMade>>

----------------------------------------------------------------------------
(* Bounds of the model *)

MaxN == 2          \* largest pool size
MaxRetry == 3      \* largest explicit retryCount of a single call
MaxPairRetry == 2  \* largest retryCount when two calls are compared
MaxSalt == 10000   \* how many salts the salt run generates

(* Program constant *)
kNumTries == 32

None == [none |-> TRUE]

Keys == {"key"}

----------------------------------------------------------------------------
(* Unsigned 32-bit numbers as two 16-bit limbs *)

Limb == 2 ^ 16

uint32_max == <<Limb - 1, Limb - 1>>

\* v * c for a small natural c; the high limb absorbs the carry
Scale(v, c) ==
    LET lo == v[2] * c
    IN  <<v[1] * c + (lo \div Limb), lo % Limb>>

Less(a, b) == a[1] < b[1] \/ (a[1] = b[1] /\ a[2] < b[2])

\* the hash values the model draws SpookyHashV2_uint32(key) from:
\* 0, uint32_max - 1, uint32_max
ScoreVals == {<<0, 0>>, <<Limb - 1, Limb - 2>>, uint32_max}

(* Weights between 0.0 and 1.0 inclusive, as exact fractions *)
Zero == <<0, 1>>
Half == <<1, 2>>
One == <<1, 1>>
WeightVals == {Zero, Half, One}

WeightVectors(n) == [1..n -> WeightVals]

----------------------------------------------------------------------------
(* The salt generator *)

Digit(d) ==
    CASE d = 0 -> "0" [] d = 1 -> "1" [] d = 2 -> "2" [] d = 3 -> "3"
      [] d = 4 -> "4" [] d = 5 -> "5" [] d = 6 -> "6" [] d = 7 -> "7"
      [] d = 8 -> "8" [] d = 9 -> "9"

\* faulty variant: only the last digit of the counter is written
ReversedDecimalLastDigit(s) == Digit(s % 10)

RECURSIVE ReversedDecimal(_)
\* the decimal representation of counter s, least significant digit first
ReversedDecimal(s) ==
    Digit(s % 10) \o (IF s \div 10 > 0 THEN ReversedDecimal(s \div 10) ELSE "")

\* faulty variant: the counter starts at 1, so that the first salt after "" is "1"
next_saltFromOne(calls) ==
    IF calls = 0 THEN "" ELSE ReversedDecimal(calls)

\* the salt returned by the (calls+1)-th call of next_salt(): first the empty
\* string, then "0", "1", ..., "9", "01", "11", "21", ...
next_salt(calls) ==
    IF calls = 0 THEN "" ELSE ReversedDecimal(calls - 1)

----------------------------------------------------------------------------
(* The external hash functions *)

\* CH3(s, n): the table fixed in the initial state; strings outside it hash to 0
CH3(s, n) == IF s \in DOMAIN ch3 THEN ch3[s] ELSE 0

SpookyHashV2_uint32(k) == hash32

----------------------------------------------------------------------------
(* weightedCh3Hash *)

\* faulty variant: the weight of the next server is read
server_weightNeighbour(W, index) == W[((index + 1) % Len(W)) + 1]

\* server_weight[index], indices from 0
server_weight(W, index) == W[index + 1]

\* faulty variant: <= in place of <
AcceptsOrEqual(probability, w) ==
    ~Less(Scale(uint32_max, w[1]), Scale(probability, w[2]))

\* probability < server_weight[index] * uint32_max, over the reals
Accepts(probability, w) ==
    Less(Scale(probability, w[2]), Scale(uint32_max, w[1]))

\* faulty variant: one attempt too many
GivesUpLate(i, rc) == i >= rc

\* faulty variant: one attempt too few
GivesUpEarly(i, rc) == i + 2 >= rc

\* "Try retryCount times": after attempt i (from 0) no attempt is left
GivesUp(i, rc) == i + 1 >= rc

\* faulty variant: the server is numbered from 1
AcceptedOneBased(index, trace) ==
    [index |-> index + 1, accepted |-> TRUE, probes |-> trace]

\* "return index" inside the loop
Accepted(index, trace) ==
    [index |-> index, accepted |-> TRUE, probes |-> trace]

\* "return index" after the loop: the index of the last retry
GaveUp(index, trace) ==
    [index |-> index, accepted |-> FALSE, probes |-> trace]

\* the loop; first = how often next_salt() was called before attempt 0.
\* attempt[i] is the loop from attempt i on.  The result lists the strings
\* handed to CH3, in order, with the index each gave.
Try(k, W, rc, first) ==
    LET attempt[i \in Nat] ==
            LET saltedKey == k \o next_salt(first + i)
                index == CH3(saltedKey, Len(W))
                probability == SpookyHashV2_uint32(k)
                probe == [key |-> saltedKey, index |-> index]
            IN  IF Accepts(probability, server_weight(W, index))
                THEN Accepted(index, <<probe>>)
                ELSE IF GivesUp(i, rc)
                     THEN GaveUp(index, <<probe>>)
                     ELSE [attempt[i + 1] EXCEPT !.probes = <<probe>> \o @]
    IN  attempt[0]

\* faulty variant: the salt generator is static: it goes on from where the call
\* before left it
weightedCh3HashStaticSalt(k, W, rc) ==
    Try(k, W, rc, IF last = None THEN 0 ELSE Len(last.probes))

weightedCh3Hash(k, W, rc) == Try(k, W, rc, 0)

----------------------------------------------------------------------------
(* The routing run: calls of weightedCh3Hash on one key, with the weight   *)
(* vector replaced between calls.                                          *)

Min(a, b) == IF a < b THEN a ELSE b

\* the strings CH3 is asked about by a call with retry count rc; of the
\* kNumTries attempts of a default call the table holds the first MaxRetry
SaltedKeys(k, rc) == {k \o next_salt(c) : c \in 0..(Min(rc, MaxRetry) - 1)}

Start(retryCounts) ==
    /\ key \in Keys
    /\ poolSize \in 1..MaxN
    /\ retryCount \in retryCounts
    /\ ch3 \in [SaltedKeys(key, retryCount) -> 0..(poolSize - 1)]
    /\ hash32 \in ScoreVals
    /\ last = None
    /\ observed = None
    /\ saltsMade = <<>>

\* explicit retry counts and the default, size_t retryCount = kNumTries
Init == Start((1..MaxRetry) \cup {kNumTries})

\* a call weightedCh3Hash(key, weights, retryCount)
Call(W) ==
    /\ last' = [weights |-> W] @@ weightedCh3Hash(key, W, retryCount)
    /\ observed' = IF observed = None
                   THEN None
                   ELSE [observed EXCEPT !.between = @ \/ W # observed.weights]
    /\ UNCHANGED <<key, poolSize, retryCount, ch3, hash32, saltsMade>>

Next == \E W \in WeightVectors(poolSize) : Call(W)

Spec == Init /\ [][Next]_vars

----------------------------------------------------------------------------
(* The run in which calls are compared: the result of a call is kept and   *)
(* later calls, with the same or with other weights, are held against it.  *)

PairInit == Start(1..MaxPairRetry)

\* history: keep the most recent call; between = a call with other weights
\* has run since
Observe ==
    /\ last # None
    /\ observed' = [weights |-> last.weights, index |-> last.index,
                    between |-> FALSE]
    /\ UNCHANGED <<key, poolSize, retryCount, ch3, hash32, last, saltsMade>>

PairNext ==
    \/ \E W \in WeightVectors(poolSize) : Call(W)
    \/ Observe

PairSpec == PairInit /\ [][PairNext]_vars

----------------------------------------------------------------------------
(* The salt run: next_salt() called MaxSalt times *)

SaltInit ==
    /\ key = "key"
    /\ poolSize = 1
    /\ retryCount = 1
    /\ ch3 = [s \in {"key"} |-> 0]
    /\ hash32 = <<0, 0>>
    /\ last = None
    /\ observed = None
    /\ saltsMade = <<>>

NextSalt ==
    /\ Len(saltsMade) < MaxSalt
    /\ saltsMade' = Append(saltsMade, next_salt(Len(saltsMade)))
    /\ UNCHANGED <<key, poolSize, retryCount, ch3, hash32, last, observed>>

SaltNext == NextSalt

SaltSpec == SaltInit /\ [][SaltNext]_vars

----------------------------------------------------------------------------
(* Helpers of the properties *)

\* the index attempt i (from 0) probes, and whether that attempt accepts
Candidate(i) == CH3(key \o next_salt(i), poolSize)

Passes(W, i) == Accepts(SpookyHashV2_uint32(key), server_weight(W, Candidate(i)))

Tries == Len(last.probes)

\* weight a is smaller than weight b
WeightLess(a, b) == a[1] * b[2] < b[1] * a[2]

\* B is A with the weight of server i (from 0) lowered and nothing else changed
LowersOne(A, B, i) ==
    /\ WeightLess(B[i + 1], A[i + 1])
    /\ \A j \in 1..Len(A) : j # i + 1 => A[j] = B[j]

RECURSIVE Digits(_)
\* the decimal digits of i, most significant first
Digits(i) == IF i < 10 THEN <<i>> ELSE Append(Digits(i \div 10), i % 10)

RECURSIVE Backwards(_)
\* the digits written in reverse order
Backwards(ds) ==
    IF ds = <<>> THEN "" ELSE Backwards(Tail(ds)) \o Digit(Head(ds))

AllOnes(W) == \A j \in 1..Len(W) : W[j] = One

AllZero(W) == \A j \in 1..Len(W) : W[j] = Zero

\* the attempts below retryCount whose acceptance test succeeds
PassingAttempts(W) == {i \in 0..(retryCount - 1) : Passes(W, i)}

Smallest(S) == CHOOSE i \in S : \A j \in S : i <= j

\* the salt of attempt i as the header lists it: nothing for attempt 0, then
\* the digits of the counter i - 1 in reverse order
CounterSalt(i) == IF i = 0 THEN "" ELSE Backwards(Digits(i - 1))

\* the salt of attempt i if attempt i >= 1 wrote the digits of i itself
AttemptSalt(i) == IF i = 0 THEN "" ELSE Backwards(Digits(i))

TypeOK ==
    /\ key \in Keys
    /\ poolSize \in 1..MaxN
    /\ hash32 \in ScoreVals
    /\ last # None => last.weights \in WeightVectors(poolSize)
    /\ observed # None => observed.weights \in WeightVectors(poolSize)
    /\ Len(saltsMade) <= MaxSalt

----------------------------------------------------------------------------
(* The properties *)

\* C1: the index a call returns is in [0, n), n the size of the weight
\* vector, when an attempt accepted and when the call fell back.
C1_RangeSafety ==
    last # None => last.index \in 0..(Len(last.weights) - 1)

\* a call that fell back to the last server of a pool of two or more
C1_Witness ==
    /\ last # None
    /\ ~last.accepted
    /\ poolSize >= 2
    /\ last.index = poolSize - 1

\* C2: with every weight 1.0 the call returns CH3(key, n), whatever the
\* 32-bit value of SpookyHashV2_uint32(key).
C2_AllOnesIsCH3 ==
    (last # None /\ AllOnes(last.weights)) => last.index = CH3(key, poolSize)

\* C3: the call returns the candidate of the smallest attempt below
\* retryCount whose acceptance test succeeds, probing no later attempt, and
\* the candidate of attempt retryCount - 1 if none succeeds.
C3_FirstAcceptedOrLast ==
    last # None =>
        LET ok == PassingAttempts(last.weights)
        IN  IF ok # {}
            THEN /\ last.accepted
                 /\ last.index = Candidate(Smallest(ok))
                 /\ Tries = Smallest(ok) + 1
            ELSE /\ ~last.accepted
                 /\ last.index = Candidate(retryCount - 1)
                 /\ Tries = retryCount

\* the first attempt is rejected, the second and the third would both pass:
\* the call returns at the second attempt
C3_Witness ==
    /\ last # None
    /\ retryCount = 3
    /\ PassingAttempts(last.weights) = {1, 2}
    /\ Candidate(0) # Candidate(1)
    /\ last.index = Candidate(1)
    /\ Tries = 2

\* C4: lowering the weight of one server moves only the keys of that server:
\* of two calls whose weight vectors differ only in a lower weight of server
\* i, if the call with the higher weight did not return i both return the
\* same index.
C4_SingleWeightConsistency ==
    (last # None /\ observed # None) =>
        \A i \in 0..(poolSize - 1) :
            /\ (LowersOne(observed.weights, last.weights, i) /\ observed.index # i)
                   => last.index = observed.index
            /\ (LowersOne(last.weights, observed.weights, i) /\ last.index # i)
                   => observed.index = last.index

\* the weight of server i was lowered while the key was on another server:
\* the later call probes server i first, is rejected there and is accepted by
\* the server the key was on
C4_Witness ==
    /\ last # None
    /\ observed # None
    /\ \E i \in 0..(poolSize - 1) :
           /\ LowersOne(observed.weights, last.weights, i)
           /\ observed.index # i
           /\ last.probes[1].index = i
           /\ last.accepted
           /\ last.index = observed.index

C6_SaltIsReversedAttempt ==
    last # None =>
        \A j \in 1..Tries : last.probes[j].key = key \o AttemptSalt(j - 1)

\* C6 as amended: attempt 0 appends nothing and attempt i >= 1 appends the
\* decimal digits of i - 1 in reverse order ("0" for attempt 1, "9" for
\* attempt 10, "01" for attempt 11, "12" for attempt 22); the string hashed
\* is the key followed by that one salt.
C6_SaltIsReversedCounter ==
    last # None =>
        /\ \A j \in 1..Tries : last.probes[j].key = key \o CounterSalt(j - 1)
        /\ Tries >= 2 => last.probes[2].key = key \o "0"
        /\ Tries >= 11 => last.probes[11].key = key \o "9"
        /\ Tries >= 12 => last.probes[12].key = key \o "01"
        /\ Tries >= 23 => last.probes[23].key = key \o "12"

\* a default call that went through all kNumTries attempts
C6_Witness ==
    /\ last # None
    /\ Tries = kNumTries
    /\ last.probes[23].key = "key12"

\* C7: the salts are pairwise distinct and the first is the empty string:
\* in every prefix of the salts of MaxSalt attempts the newest salt differs
\* from every salt before it.
C7_SaltsDistinct ==
    LET made == Len(saltsMade)
        newest == saltsMade[made]
    IN  /\ made >= 1 => saltsMade[1] = ""
        /\ \A j \in 1..(made - 1) : saltsMade[j] # newest

\* the first salt of two digits has been generated
C7_Witness ==
    /\ Len(saltsMade) = 12
    /\ saltsMade[12] = "01"

\* C8: a candidate of weight 1.0 is accepted at the attempt that probes it,
\* for every 32-bit value of SpookyHashV2_uint32(key): the call returns it
\* there.
C8_WeightOneAccepted ==
    last # None =>
        \A j \in 1..Tries :
            server_weight(last.weights, last.probes[j].index) = One
                => (j = Tries /\ last.accepted /\ last.index = last.probes[j].index)

\* C9: a candidate of weight 0.0 is never accepted; the call returns a server
\* of weight 0.0 only by falling back, after retryCount rejected attempts, and
\* then it is the candidate of attempt retryCount - 1.
C9_ZeroOnlyByFallback ==
    last # None =>
        /\ \A j \in 1..Tries :
               server_weight(last.weights, last.probes[j].index) = Zero
                   => (j < Tries \/ ~last.accepted)
        /\ server_weight(last.weights, last.index) = Zero
               => /\ ~last.accepted
                  /\ Tries = retryCount
                  /\ last.index = last.probes[retryCount].index

\* hash value 0, a server of weight 0.0 probed and passed over, another server
\* accepted
C9_Witness ==
    /\ last # None
    /\ hash32 = <<0, 0>>
    /\ last.accepted
    /\ Tries = 2
    /\ server_weight(last.weights, last.probes[1].index) = Zero

\* C10: a call makes at most retryCount attempts (kNumTries by default), each
\* with one evaluation of CH3, and then returns, for every weight vector.
C10_BoundedRetries ==
    last # None =>
        /\ Tries \in 1..retryCount
        /\ ~last.accepted => Tries = retryCount

\* a default call on all-zero weights: kNumTries attempts, then the fallback
C10_Witness ==
    /\ last # None
    /\ retryCount = kNumTries
    /\ AllZero(last.weights)
    /\ Tries = kNumTries
    /\ ~last.accepted

====
